---- MODULE Spec2Model ----
(***************************************************************************)
(* Portfolio allocation optimizer of the AI services                      *)
(* (src/src/AI.Services/services/portfolio_optimizer.py, reached through  *)
(* the /api/ai/portfolio/optimize endpoint of src/src/AI.Services/main.py).*)
(*                                                                         *)
(* Numbers.  A weight is a whole number of grid units; Scale units are the *)
(* weight 1.0.  Scale is the least common multiple of 1..MaxAssets, so the *)
(* equal weight 1/N is exact for every N the model reaches.  One unit is   *)
(* far coarser than the tolerances in play (1e-6 inside the solver, 1e-4   *)
(* in the specification), so "within tolerance" is equality on the grid.   *)
(* Constraint values live on the same grid and may lie outside [0, Scale]. *)
(*                                                                         *)
(* Order.  A weight vector is a sequence indexed like the columns of the   *)
(* fetched price table (mean_returns.index); the request's symbol list has *)
(* its own order.                                                          *)
(*                                                                         *)
(* Specifications.  Spec is the endpoint as the source has it: bearer      *)
(* token, get_current_user, optimize.  SpecFetched is the same endpoint    *)
(* with _fetch_portfolio_data replaced by a double.  SpecUnit calls        *)
(* _optimize_weights on its own, SpecMetrics the metric functions that     *)
(* optimize applies to the weights (Sharpe ratio, beta, diversification    *)
(* score, allocations, risk contributions, suggestions, max drawdown,      *)
(* value at risk, company info) and the token functions of utils/auth.py.  *)
(* SpecOutstanding is Spec with the download as a call that stays          *)
(* outstanding until the provider answers, under weak fairness of the      *)
(* service's own steps.  SpecConcurrent serves two requests side by side   *)
(* on the one PortfolioOptimizer instance.                                 *)
(***************************************************************************)
EXTENDS Integers, Sequences, FiniteSets, TLC

VARIABLES
    pc,               \* "idle" | "received" | "authenticated" | "fetching" | "done" | "returned"
    credentials,      \* the bearer token of the HTTP request, or NoToken
    current_user,     \* the payload get_current_user returned, or NoUser
    request,          \* the PortfolioOptimizationRequest being served, or NoRequest
    downloaded,       \* what yf.download handed to _fetch_portfolio_data, or NoDownload
    call,             \* arguments of the running/finished _optimize_weights call, or NoCall
    constraints_list, \* the solver-ready constraints _optimize_weights built
    solver,           \* "not_called" | "converged" | "not_converged" | "raised"
    solver_x,         \* result.x of a converged solve, << >> otherwise
    optimal_weights,  \* what _optimize_weights returned, << >> before
    response,         \* the PortfolioOptimizationResponse, or NoResponse
    status,           \* HTTP status of the answer, 0 before
    log,              \* set of messages written to the logger
    calc,             \* the last call of a metric function: its name, arguments, result
    solver_calls,     \* how often scipy's minimize was invoked for the request
    optimizer,        \* the fields of the module's PortfolioOptimizer instance
    tasks             \* the locals of each request being served concurrently

vars == << pc, credentials, current_user, request, downloaded, call,
           constraints_list, solver, solver_x, optimal_weights, response,
           status, log, calc, solver_calls, optimizer, tasks >>

----------------------------------------------------------------------------
(* Bounds of the model *)

\* largest number of symbols in one request
MaxAssets == 2

\* largest number of constraints in one request
MaxConstraints == 2

----------------------------------------------------------------------------
(* Numbers *)

RECURSIVE Gcd(_, _)
Gcd(a, b) == IF b = 0 THEN a ELSE Gcd(b, a % b)

RECURSIVE LcmUpTo(_)
LcmUpTo(n) == IF n <= 1 THEN 1 ELSE (LcmUpTo(n - 1) * n) \div Gcd(LcmUpTo(n - 1), n)

\* grid units that make the weight 1.0
Scale == LcmUpTo(MaxAssets)

\* the weight 0.5 and a weight above 1.0, as constraint values
Half == Scale \div 2
Over == Scale + 1

RECURSIVE SumTo(_, _)
SumTo(x, k) == IF k = 0 THEN 0 ELSE x[k] + SumTo(x, k - 1)

\* np.sum(x)
Sum(x) == SumTo(x, Len(x))

----------------------------------------------------------------------------
(* Market data: the universe of tickers, their alphabetical rank, their sector *)

Universe == {"AAPL", "MSFT", "XOM"}

Rank(s) == CASE s = "AAPL" -> 1 [] s = "MSFT" -> 2 [] s = "XOM" -> 3

\* ticker.info['sector'] as the data provider reports it
SectorOf(s) == IF s = "XOM" THEN "Energy" ELSE "Technology"

\* models/portfolio_models.py
RiskTolerances == {"conservative", "moderate", "aggressive"}
Objectives == {"max_return", "min_risk", "max_sharpe", "equal_weight"}

None == "None"
NoRequest == [symbols |-> << >>]
NoCall == [index |-> << >>]
NoResponse == [allocations |-> << >>]
NoCalc == [fn |-> None]

\* PortfolioConstraint(type, symbol, sector, value)
Constraint(t, sym, sec, v) == [type |-> t, symbol |-> sym, sector |-> sec, value |-> v]

\* the constraints a request may carry
ConstraintCatalogue ==
    { Constraint(t, "AAPL", None, v) : t \in {"max_weight", "min_weight"}, v \in {Half, Over} }
    \cup { Constraint(t, "XOM", None, Half) : t \in {"max_weight", "min_weight"} }
    \cup { Constraint("sector_limit", None, "Technology", Half) }

ConstraintLists == UNION { [1..k -> ConstraintCatalogue] : k \in 0..MaxConstraints }

\* symbol lists: ordered, unique, 1..MaxAssets long
SymbolLists ==
    { s \in UNION { [1..k -> Universe] : k \in 1..MaxAssets } :
        \A i, j \in 1..Len(s) : i # j => s[i] # s[j] }

\* PortfolioOptimizationRequest; objective None is a request body without the field
Requests ==
    [ symbols : SymbolLists,
      risk_tolerance : RiskTolerances,
      objective : Objectives \cup {None},
      constraints : ConstraintLists ]

Range(s) == { s[i] : i \in 1..Len(s) }

RECURSIVE SortedSeq(_)
SortedSeq(S) ==
    IF S = {} THEN << >>
    ELSE LET m == CHOOSE a \in S : \A b \in S : Rank(a) <= Rank(b)
         IN  << m >> \o SortedSeq(S \ {m})

\* yf.download(symbols)['Adj Close']: one column per ticker, tickers in alphabetical order
FetchColumns(symbols) == SortedSeq(Range(symbols))

\* a fillna that takes any method name
FillnaAcceptsAny(method) == TRUE

\* DataFrame.fillna(method=m): pandas knows "pad"/"ffill" and
\* "backfill"/"bfill"; any other name raises ValueError before a value is read
FillnaAccepts(method) == method \in {"pad", "ffill", "backfill", "bfill"}

\* a price table: its columns, and the tickers whose column holds no price at
\* all (the provider has no history for them; the column is NaN in every row)
Table(columns, missing) ==
    [raised |-> FALSE, columns |-> columns, missing |-> missing, error |-> None]

PriceTable(symbols) == Table(FetchColumns(symbols), {})
\* an exception out of the download or the fill, with its str()
FetchError(text) == [raised |-> TRUE, columns |-> << >>, missing |-> {}, error |-> text]
FetchRaised == FetchError("download failed")
NoDownload == Table(<< >>, {})

\* yf.download(symbols, period)['Adj Close']: raises, or hands back a table
\* with a column per requested ticker; a ticker without history keeps its
\* column, empty
Download(symbols) ==
    { FetchRaised } \cup { Table(FetchColumns(symbols), m) : m \in SUBSET Range(symbols) }

\* _fetch_portfolio_data: the download may raise; the table is then filled with
\* fillna(method='forward').fillna(method='backward'), which leaves an empty
\* column empty; whatever raises is logged and raised again
FetchPortfolioData(symbols, download) ==
    IF download.raised THEN FetchRaised
    ELSE IF ~(FillnaAccepts("forward") /\ FillnaAccepts("backward"))
    THEN FetchError("Invalid fill method")
    ELSE Table(download.columns, download.missing)

----------------------------------------------------------------------------
(* _get_optimization_objective *)

GetOptimizationObjective(risk_tolerance) ==
    IF risk_tolerance = "conservative" THEN "min_risk"
    ELSE IF risk_tolerance = "aggressive" THEN "max_return"
    ELSE "max_sharpe"

----------------------------------------------------------------------------
(* _optimize_weights *)

\* x0 = np.array([1/n_assets] * n_assets)
EqualWeights(n) == [i \in 1..n |-> Scale \div n]

\* GetLoc as it would be if an unknown symbol were bound to the first column
GetLocFirstColumn(index, symbol) ==
    IF symbol \in Range(index) THEN CHOOSE i \in 1..Len(index) : index[i] = symbol ELSE 1

\* mean_returns.index.get_loc(symbol); 0 stands for KeyError
GetLoc(index, symbol) ==
    IF symbol \in Range(index) THEN CHOOSE i \in 1..Len(index) : index[i] = symbol ELSE 0

SumConstraint == [type |-> "eq", kind |-> "sum", i |-> 0, val |-> Scale]

\* what one user constraint appends to constraints_list
CustomConstraint(index, c) ==
    IF c.type = "max_weight" /\ c.symbol # None
    THEN IF GetLoc(index, c.symbol) # 0
         THEN << [type |-> "ineq", kind |-> "max", i |-> GetLoc(index, c.symbol), val |-> c.value] >>
         ELSE << >>
    ELSE IF c.type = "min_weight" /\ c.symbol # None
    THEN IF GetLoc(index, c.symbol) # 0
         THEN << [type |-> "ineq", kind |-> "min", i |-> GetLoc(index, c.symbol), val |-> c.value] >>
         ELSE << >>
    ELSE << >>

\* the warning the KeyError handlers write
CustomWarning(index, c) ==
    IF c.type \in {"max_weight", "min_weight"} /\ c.symbol # None
       /\ GetLoc(index, c.symbol) = 0
    THEN {<< "warning", "symbol_not_found", c.symbol >>}
    ELSE {}

RECURSIVE CustomConstraints(_, _, _)
CustomConstraints(index, constraints, k) ==
    IF k = 0 THEN << >>
    ELSE CustomConstraints(index, constraints, k - 1) \o CustomConstraint(index, constraints[k])

\* BuildConstraints as it would be without the sum-to-one equality
BuildConstraintsNoSum(index, constraints) ==
    CustomConstraints(index, constraints, Len(constraints))

\* constraints_list after the loop over the user's constraints
BuildConstraints(index, constraints) ==
    << SumConstraint >> \o CustomConstraints(index, constraints, Len(constraints))

BuildWarnings(index, constraints) ==
    UNION { CustomWarning(index, constraints[k]) : k \in 1..Len(constraints) }

\* Bounds as it would be if the solver were left a wider box than [0, 1]
BoundsWide(n) == [i \in 1..n |-> << 0 - 1, Scale + 1 >>]

\* bounds = tuple((0, 1) for _ in range(n_assets))
Bounds(n) == [i \in 1..n |-> << 0, Scale >>]

\* the value of one constraint function at x is >= 0 (ineq) or = 0 (eq)
Holds(c, x) ==
    IF c.type = "eq" THEN Sum(x) - c.val = 0
    ELSE IF c.kind = "max" THEN c.val - x[c.i] >= 0
    ELSE x[c.i] - c.val >= 0

Satisfies(x, cl) == \A k \in 1..Len(cl) : Holds(cl[k], x)

WithinBounds(x, bounds) ==
    \A i \in 1..Len(bounds) : bounds[i][1] <= x[i] /\ x[i] <= bounds[i][2]

\* the points of the grid within the bounds
Box(bounds) ==
    LET lo == CHOOSE l \in { bounds[i][1] : i \in 1..Len(bounds) } :
                  \A i \in 1..Len(bounds) : l <= bounds[i][1]
        hi == CHOOSE h \in { bounds[i][2] : i \in 1..Len(bounds) } :
                  \A i \in 1..Len(bounds) : h >= bounds[i][2]
    IN  IF Len(bounds) = 0 THEN { << >> }
        ELSE { x \in [1..Len(bounds) -> lo..hi] : WithinBounds(x, bounds) }

\* the points of the box that satisfy every constraint.  When the list opens
\* with the sum constraint the last coordinate is what the others leave of
\* it, which enumerates the same set without visiting the whole box.
FeasiblePoints(bounds, cl) ==
    LET n == Len(bounds)
        candidates ==
            IF n > 0 /\ Len(cl) > 0 /\ cl[1].type = "eq"
            THEN { Append(p, cl[1].val - Sum(p)) : p \in Box(SubSeq(bounds, 1, n - 1)) }
            ELSE Box(bounds)
    IN  { x \in candidates : WithinBounds(x, bounds) /\ Satisfies(x, cl) }

Success(x) == [kind |-> "success", x |-> x]
Failure(x) == [kind |-> "failure", x |-> x]
Raise == [kind |-> "raise", x |-> << >>]

\* scipy.optimize.minimize(method='SLSQP') as documented: success means the
\* returned point lies within the bounds and satisfies every constraint to the
\* solver's accuracy; any such point is the optimum for some market data.  A
\* run may also stop without converging (its last iterate is any point of
\* the box), and evaluating the objective may raise.
Minimize(x0, bounds, cl) ==
    { Success(x) : x \in FeasiblePoints(bounds, cl) }
    \cup { Failure(x) : x \in { x0, [i \in 1..Len(x0) |-> 0] } }
    \cup { Raise }

\* UsesSolver as it would be if EQUAL_WEIGHT fell through to the solver
UsesSolverAlways(objective) == objective \in {"max_return", "min_risk", "max_sharpe", "equal_weight"}

\* the objective branches: three build an objective function and go on to the
\* solver, anything else (EQUAL_WEIGHT) returns x0 at once
UsesSolver(objective) == objective \in {"max_return", "min_risk", "max_sharpe"}

\* HandleResult as it would be if a failed solve returned its last iterate
HandleResultLastIterate(result, x0) ==
    IF result.kind = "raise"
    THEN [weights |-> x0, solver |-> "raised", solver_x |-> << >>,
          log |-> {<< "error", "optimization_error" >>}]
    ELSE IF result.kind = "success"
    THEN [weights |-> result.x, solver |-> "converged", solver_x |-> result.x,
          log |-> {}]
    ELSE [weights |-> result.x, solver |-> "not_converged", solver_x |-> << >>,
          log |-> {<< "warning", "optimization_failed" >>}]

\* the try block around minimize: result.x on success, x0 with a warning when
\* the solver did not converge, x0 with an error when the call raised
HandleResult(result, x0) ==
    IF result.kind = "raise"
    THEN [weights |-> x0, solver |-> "raised", solver_x |-> << >>,
          log |-> {<< "error", "optimization_error" >>}]
    ELSE IF result.kind = "success"
    THEN [weights |-> result.x, solver |-> "converged", solver_x |-> result.x,
          log |-> {}]
    ELSE [weights |-> x0, solver |-> "not_converged", solver_x |-> << >>,
          log |-> {<< "warning", "optimization_failed" >>}]

\* a solve that is repeated once when it did not succeed
MinimizeCallsRetried(result) == IF result.kind = "success" THEN 1 ELSE 2

\* the calls of minimize in one run of the try block: the one of line 193,
\* whatever it comes back with
MinimizeCalls(result) == 1

\* the return value of _optimize_weights and what it did on the way
OptimizeWeights(index, objective, constraints, result) ==
    LET n_assets == Len(index)
        x0 == EqualWeights(n_assets)
        cl == BuildConstraints(index, constraints)
        warned == BuildWarnings(index, constraints)
        handled == HandleResult(result, x0)
    IN  IF UsesSolver(objective)
        THEN [weights |-> handled.weights, solver |-> handled.solver,
              solver_x |-> handled.solver_x, constraints_list |-> cl,
              log |-> warned \cup handled.log,
              solver_calls |-> MinimizeCalls(result)]
        ELSE [weights |-> x0, solver |-> "not_called", solver_x |-> << >>,
              constraints_list |-> cl, log |-> warned, solver_calls |-> 0]

----------------------------------------------------------------------------
(* optimize: the response *)

\* one AllocationRecommendation per requested symbol, in request order
Allocations(symbols, weights) ==
    [ i \in 1..Len(symbols) |->
        [ symbol |-> symbols[i],
          recommended_weight |-> weights[i],
          sector |-> SectorOf(symbols[i]) ] ]

\* PortfolioOptimizationResponse; metadata keeps its default {}
BuildResponse(symbols, weights) ==
    [ allocations |-> Allocations(symbols, weights), metadata |-> {} ]

----------------------------------------------------------------------------
(* utils/auth.py and get_current_user *)

\* a bearer token as jwt.decode sees it: whether it parses as a JWT, whether
\* its HS256 signature matches the secret key, whether its exp has passed,
\* whether it carries an aud claim
Token(w, s, e, a) == [wellformed |-> w, signed |-> s, expired |-> e, aud |-> a]

Tokens ==
    { Token(FALSE, FALSE, FALSE, FALSE) }
    \cup { Token(TRUE, s, e, a) : s \in BOOLEAN, e \in BOOLEAN, a \in BOOLEAN }

NoToken == [wellformed |-> FALSE]

Payload == [user_id |-> "user-1"]
NoUser == [user_id |-> None]

Returned(v) == [raised |-> FALSE, value |-> v]
Raised(e) == [raised |-> TRUE, value |-> e]

\* a decode that hands back the claims of whatever token parses
JwtDecodeUnverified(token) ==
    IF ~token.wellformed THEN Raised("DecodeError") ELSE Returned(Payload)

\* jwt.decode(token, secret_key, algorithms=["HS256"], options={"verify_exp": True}):
\* the segments, then the signature, then the claims; no audience is passed,
\* so a token that carries an aud claim is refused
JwtDecode(token) ==
    IF ~token.wellformed THEN Raised("DecodeError")
    ELSE IF ~token.signed THEN Raised("InvalidSignatureError")
    ELSE IF token.expired THEN Raised("ExpiredSignatureError")
    ELSE IF token.aud THEN Raised("InvalidAudienceError")
    ELSE Returned(Payload)

\* verify_jwt_token: the payload, or an Exception whose message names the cause
VerifyJwtToken(token) ==
    LET decoded == JwtDecode(token)
    IN  IF ~decoded.raised THEN decoded
        ELSE IF decoded.value = "ExpiredSignatureError" THEN Raised("Token has expired")
        ELSE Raised("Invalid token")

----------------------------------------------------------------------------
(* The endpoint *)

\* the body of an HTTPException: no allocations, a detail text for the caller
ErrorBody(detail) == [allocations |-> << >>, detail |-> detail]

\* an endpoint that answers 200 whatever optimize did
EndpointStatusAlwaysOk(raised) == 200

\* optimize_portfolio: what optimize returns is returned (200), whatever it
\* raises becomes HTTPException(status_code=500)
EndpointStatus(raised) == IF raised THEN 500 ELSE 200

\* self.risk_free_rate = 0.02, in units of one percent
RiskFreeRate == 2

\* self.trading_days = 252
TradingDays == 252

\* PortfolioOptimizer(): the one instance of the module, as __init__ leaves it
PortfolioOptimizer == [risk_free_rate |-> RiskFreeRate, trading_days |-> TradingDays]

\* the requests that may be in progress at the same time
Tasks == {1, 2}

\* the locals of a request that has not arrived
NoTask ==
    [pc |-> "idle", request |-> NoRequest, data |-> NoDownload, result |-> Raise,
     optimal_weights |-> << >>, status |-> 0, response |-> NoResponse]

Init ==
    /\ pc = "idle"
    /\ credentials = NoToken
    /\ current_user = NoUser
    /\ request = NoRequest
    /\ downloaded = NoDownload
    /\ calc = NoCalc
    /\ call = NoCall
    /\ constraints_list = << >>
    /\ solver = "not_called"
    /\ solver_x = << >>
    /\ optimal_weights = << >>
    /\ response = NoResponse
    /\ status = 0
    /\ log = {}
    /\ solver_calls = 0
    /\ optimizer = PortfolioOptimizer
    /\ tasks = [p \in Tasks |-> NoTask]

\* an HTTP request for /api/ai/portfolio/optimize arrives; HTTPBearer takes
\* the token out of its Authorization header
ReceiveRequest ==
    /\ pc = "idle"
    /\ \E token \in Tokens : credentials' = token
    /\ pc' = "received"
    /\ UNCHANGED << current_user, request, downloaded, call, constraints_list, solver,
                    solver_x, optimal_weights, response, status, log, calc, solver_calls,
                    optimizer, tasks >>

\* get_current_user, the dependency of the endpoint: any exception of
\* verify_jwt_token is logged and answered 401; with a payload the body is
\* parsed into PortfolioOptimizationRequest and the endpoint function may run
GetCurrentUser ==
    /\ pc = "received"
    /\ LET verified == VerifyJwtToken(credentials)
       IN  IF verified.raised
           THEN /\ status' = 401
                /\ response' = ErrorBody(<< "Invalid authentication credentials" >>)
                /\ log' = log \cup {<< "error", "authentication_failed" >>}
                /\ pc' = "done"
                /\ UNCHANGED << current_user, request >>
           ELSE /\ current_user' = verified.value
                /\ \E r \in Requests : request' = r
                /\ pc' = "authenticated"
                /\ UNCHANGED << status, response, log >>
    /\ UNCHANGED << credentials, downloaded, call, constraints_list, solver, solver_x,
                    optimal_weights, calc, solver_calls, optimizer, tasks >>

\* optimize_portfolio around optimize, given what _fetch_portfolio_data came
\* back with.  A raise is logged by the optimizer and by the endpoint and
\* answered 500.  With a table: the objective from the risk tolerance, one
\* _optimize_weights call over the table's columns, the response built from
\* its result, answered 200.
Serve(data) ==
    IF data.raised
    THEN /\ status' = EndpointStatus(TRUE)
         /\ response' = ErrorBody(<< "Portfolio optimization failed", data.error >>)
         /\ log' = log \cup {<< "info", "portfolio_optimization_request" >>,
                              << "error", "fetch_failed" >>,
                              << "error", "portfolio_optimization_failed" >>}
         /\ pc' = "done"
         /\ UNCHANGED << credentials, current_user, request, call, constraints_list,
                         solver, solver_x, optimal_weights, calc, solver_calls,
                         optimizer, tasks >>
    ELSE /\ LET index == data.columns
                objective == GetOptimizationObjective(request.risk_tolerance)
            IN  \E result \in Minimize(EqualWeights(Len(index)), Bounds(Len(index)),
                                       BuildConstraints(index, request.constraints)) :
                  LET out == OptimizeWeights(index, objective, request.constraints, result)
                  IN  /\ call' = [index |-> index, objective |-> objective,
                                  constraints |-> request.constraints]
                      /\ constraints_list' = out.constraints_list
                      /\ solver' = out.solver
                      /\ solver_x' = out.solver_x
                      /\ optimal_weights' = out.weights
                      /\ solver_calls' = out.solver_calls
                      /\ log' = log \cup {<< "info", "portfolio_optimization_request" >>}
                                     \cup out.log
                      /\ response' = BuildResponse(request.symbols, out.weights)
         /\ status' = EndpointStatus(FALSE)
         /\ pc' = "done"
         /\ UNCHANGED << credentials, current_user, request, calc, optimizer, tasks >>

\* the endpoint as the source has it
OptimizePortfolio ==
    /\ pc = "authenticated"
    /\ \E download \in Download(request.symbols) :
         /\ downloaded' = download
         /\ Serve(FetchPortfolioData(request.symbols, download))

\* the answer is sent; nothing of the request is kept
Finish ==
    /\ pc \in {"done", "returned"}
    /\ pc' = "idle"
    /\ credentials' = NoToken
    /\ current_user' = NoUser
    /\ request' = NoRequest
    /\ downloaded' = NoDownload
    /\ calc' = NoCalc
    /\ call' = NoCall
    /\ constraints_list' = << >>
    /\ solver' = "not_called"
    /\ solver_x' = << >>
    /\ optimal_weights' = << >>
    /\ response' = NoResponse
    /\ status' = 0
    /\ log' = {}
    /\ solver_calls' = 0
    /\ UNCHANGED << optimizer, tasks >>

Next == ReceiveRequest \/ GetCurrentUser \/ OptimizePortfolio \/ Finish

Spec == Init /\ [][Next]_vars

----------------------------------------------------------------------------
(* The endpoint with the price table in hand: _fetch_portfolio_data is      *)
(* replaced by a double that returns the table of the requested symbols,   *)
(* or raises.  Everything after line 29 of optimize is the source's.       *)

OptimizePortfolioFetched ==
    /\ pc = "authenticated"
    /\ \E data \in { PriceTable(request.symbols), FetchRaised } :
         /\ downloaded' = data
         /\ Serve(data)

NextFetched == ReceiveRequest \/ GetCurrentUser \/ OptimizePortfolioFetched \/ Finish

SpecFetched == Init /\ [][NextFetched]_vars

----------------------------------------------------------------------------
(* _optimize_weights called on its own, its arguments and the solver's      *)
(* result drawn from bounded sets.  The result is an argument here: any     *)
(* OptimizeResult, also one whose success flag comes with a vector outside  *)
(* the simplex.                                                             *)

\* vectors that break the sum, the bounds, or both
InvalidPoints(n) ==
    { [i \in 1..n |-> 0],
      [i \in 1..n |-> IF i = 1 THEN Over ELSE 0],
      [i \in 1..n |-> IF i = 1 THEN Over ELSE IF i = 2 THEN 0 - 1 ELSE 0] }

ResultInputs(n) ==
    { Success(x) : x \in FeasiblePoints(Bounds(n), << SumConstraint >>) \cup InvalidPoints(n) }
    \cup { Failure(x) : x \in { EqualWeights(n), [i \in 1..n |-> 0] } }
    \cup { Raise }

IndexInputs == { FetchColumns(s) : s \in SymbolLists }

CallOptimizeWeights ==
    /\ pc = "idle"
    /\ \E index \in IndexInputs, objective \in Objectives, constraints \in ConstraintLists :
         \E result \in ResultInputs(Len(index)) :
           LET out == OptimizeWeights(index, objective, constraints, result)
           IN  /\ call' = [index |-> index, objective |-> objective,
                           constraints |-> constraints]
               /\ constraints_list' = out.constraints_list
               /\ solver' = out.solver
               /\ solver_x' = out.solver_x
               /\ optimal_weights' = out.weights
               /\ solver_calls' = out.solver_calls
               /\ log' = log \cup out.log
    /\ pc' = "returned"
    /\ UNCHANGED << credentials, current_user, request, downloaded, response, status, calc,
                    optimizer, tasks >>

NextUnit == CallOptimizeWeights \/ Finish

SpecUnit == Init /\ [][NextUnit]_vars

----------------------------------------------------------------------------
(* The endpoint with the download as a call that is outstanding until the  *)
(* data provider answers.  The steps of the service are taken whenever     *)
(* they can be (the event loop runs what is ready); when, and whether, the *)
(* provider answers is not the service's to decide.                        *)

\* optimize is entered and _fetch_portfolio_data calls yf.download
BeginFetch ==
    /\ pc = "authenticated"
    /\ pc' = "fetching"
    /\ UNCHANGED << credentials, current_user, request, downloaded, call, constraints_list,
                    solver, solver_x, optimal_weights, response, status, log, calc,
                    solver_calls, optimizer, tasks >>

\* yf.download comes back, with a table or an exception, and the request
\* runs to its answer; nothing else in the source ends the wait
DownloadAnswers ==
    /\ pc = "fetching"
    /\ \E download \in Download(request.symbols) :
         /\ downloaded' = download
         /\ Serve(FetchPortfolioData(request.symbols, download))

NextOutstanding ==
    ReceiveRequest \/ GetCurrentUser \/ BeginFetch \/ DownloadAnswers \/ Finish

SpecOutstanding ==
    /\ Init
    /\ [][NextOutstanding]_vars
    /\ WF_vars(GetCurrentUser)
    /\ WF_vars(BeginFetch)
    /\ WF_vars(Finish)

----------------------------------------------------------------------------
(* Requests served side by side.  The endpoint and optimize are coroutines  *)
(* on one event loop, and all of them use the module's one                 *)
(* PortfolioOptimizer; another request may run wherever one of them        *)
(* awaits.  Each request has its own frame: what it holds between two      *)
(* awaits is in tasks[p].  The fetch is the double of SpecFetched.         *)

\* everything the single-request endpoint keeps
endpoint_vars ==
    << pc, credentials, current_user, request, downloaded, call, constraints_list,
       solver, solver_x, optimal_weights, response, status, log, calc, solver_calls >>

\* request bodies of the concurrent requests: symbols out of two tickers,
\* no objective field, no constraints
ConcurrentRequests ==
    [ symbols : { s \in SymbolLists : Range(s) \subseteq {"AAPL", "MSFT"} },
      risk_tolerance : RiskTolerances,
      objective : {None},
      constraints : {<< >>} ]

\* the weights a request reads where another request's weights are in reach:
\* those of a request that has just optimized as many assets
SharedWeights(ts, p) ==
    LET others == { q \in DOMAIN ts :
                      /\ q # p
                      /\ ts[q].pc = "optimized"
                      /\ Len(ts[q].optimal_weights) = Len(ts[p].optimal_weights) }
    IN  IF others = {} THEN ts[p].optimal_weights
        ELSE ts[CHOOSE q \in others : TRUE].optimal_weights

\* optimal_weights as optimize reads it after line 40: its own local
LocalWeights(ts, p) == ts[p].optimal_weights

\* optimize_portfolio is entered with the parsed request
BeginRequest(p) ==
    /\ tasks[p].pc = "idle"
    /\ \E r \in ConcurrentRequests :
         tasks' = [tasks EXCEPT ![p] = [NoTask EXCEPT !.pc = "accepted", !.request = r]]
    /\ UNCHANGED << endpoint_vars, optimizer >>

\* await self._fetch_portfolio_data(symbols): a raise goes up through
\* optimize and the endpoint and is answered 500
AwaitFetchPortfolioData(p) ==
    /\ tasks[p].pc = "accepted"
    /\ \E data \in { PriceTable(tasks[p].request.symbols), FetchRaised } :
         tasks' = [tasks EXCEPT ![p] =
                     IF data.raised
                     THEN [@ EXCEPT !.pc = "done", !.data = data,
                                    !.status = EndpointStatus(TRUE),
                                    !.response = ErrorBody(<< "Portfolio optimization failed",
                                                              data.error >>)]
                     ELSE [@ EXCEPT !.pc = "fetched", !.data = data]]
    /\ UNCHANGED << endpoint_vars, optimizer >>

\* lines 37-42: the objective, then await self._optimize_weights(...)
AwaitOptimizeWeights(p) ==
    /\ tasks[p].pc = "fetched"
    /\ LET index == tasks[p].data.columns
           objective == GetOptimizationObjective(tasks[p].request.risk_tolerance)
       IN  \E result \in Minimize(EqualWeights(Len(index)), Bounds(Len(index)),
                                  BuildConstraints(index, tasks[p].request.constraints)) :
             tasks' = [tasks EXCEPT ![p] =
                         [@ EXCEPT !.pc = "optimized", !.result = result,
                                   !.optimal_weights =
                                       OptimizeWeights(index, objective,
                                                       tasks[p].request.constraints,
                                                       result).weights]]
    /\ UNCHANGED << endpoint_vars, optimizer >>

\* lines 44-101 and the endpoint's return: the response from the weights
ReturnOptimization(p) ==
    /\ tasks[p].pc = "optimized"
    /\ tasks' = [tasks EXCEPT ![p] =
                   [@ EXCEPT !.pc = "done", !.status = EndpointStatus(FALSE),
                             !.response = BuildResponse(tasks[p].request.symbols,
                                                        LocalWeights(tasks, p))]]
    /\ UNCHANGED << endpoint_vars, optimizer >>

\* the answer is sent and the frame is gone
EndRequest(p) ==
    /\ tasks[p].pc = "done"
    /\ tasks' = [tasks EXCEPT ![p] = NoTask]
    /\ UNCHANGED << endpoint_vars, optimizer >>

NextConcurrent ==
    \E p \in Tasks :
        \/ BeginRequest(p)
        \/ AwaitFetchPortfolioData(p)
        \/ AwaitOptimizeWeights(p)
        \/ ReturnOptimization(p)
        \/ EndRequest(p)

SpecConcurrent == Init /\ [][NextConcurrent]_vars

----------------------------------------------------------------------------
(* The metric functions of the optimizer, each called on its own with its   *)
(* arguments drawn from bounded sets.  Returns, volatilities and prices are *)
(* whole numbers of grid units; a float64 result is an exact fraction       *)
(* num/den, or one of the IEEE values a division by zero leaves behind.     *)

\* largest magnitude of a return, volatility or covariance entry, in grid units
MaxReturn == 3

Finite(n, d) == [kind |-> "finite", num |-> n, den |-> d]
PosInf == [kind |-> "inf", num |-> 1, den |-> 0]
NegInf == [kind |-> "-inf", num |-> 0 - 1, den |-> 0]
NaN == [kind |-> "nan", num |-> 0, den |-> 0]

Abs(a) == IF a < 0 THEN 0 - a ELSE a

\* the fraction n/d, d above zero, in lowest terms
Reduced(n, d) == Finite(n \div Gcd(Abs(n), d), d \div Gcd(Abs(n), d))

\* a / b on numpy float64 scalars, floating-point warnings silenced: a zero
\* divisor raises nothing and leaves inf, -inf or nan
Divide(a, b) ==
    IF b > 0 THEN Reduced(a, b)
    ELSE IF b < 0 THEN Reduced(0 - a, 0 - b)
    ELSE IF a > 0 THEN PosInf
    ELSE IF a < 0 THEN NegInf
    ELSE NaN

IsFinite(x) == x.kind = "finite"

\* equality and order of two finite values
FloatEq(x, y) ==
    IsFinite(x) /\ IsFinite(y) /\ Reduced(x.num, x.den) = Reduced(y.num, y.den)
FloatLeq(x, y) == IsFinite(x) /\ IsFinite(y) /\ x.num * y.den <= y.num * x.den

\* optimize, line 47: sharpe_ratio from portfolio_return and portfolio_volatility
SharpeRatio(portfolio_return, portfolio_volatility) ==
    Divide(portfolio_return - RiskFreeRate, portfolio_volatility)

CallSharpeRatio ==
    /\ pc = "idle"
    /\ \E portfolio_return \in (0 - MaxReturn)..MaxReturn, portfolio_volatility \in 0..MaxReturn :
         calc' = [fn |-> "sharpe_ratio",
                  portfolio_return |-> portfolio_return,
                  portfolio_volatility |-> portfolio_volatility,
                  result |-> SharpeRatio(portfolio_return, portfolio_volatility)]
    /\ pc' = "returned"
    /\ UNCHANGED << credentials, current_user, request, downloaded, call, constraints_list,
                    solver, solver_x, optimal_weights, response, status, log, solver_calls, optimizer, tasks >>

\* _calculate_portfolio_beta needs this many dates shared with the benchmark
MinCommonDates == 50

\* a daily return series: a function from dates (day numbers) to returns
Dates(series) == DOMAIN series

RECURSIVE SumOver(_, _)
SumOver(f, D) ==
    IF D = {} THEN 0
    ELSE LET d == CHOOSE x \in D : TRUE IN f[d] + SumOver(f, D \ {d})

\* np.cov(x, y)[0, 1] over the dates D: the sum of the products of the
\* deviations from the means, divided by len(D) - 1
Cov(x, y, D) ==
    LET n == Cardinality(D)
        sxy == SumOver([d \in D |-> x[d] * y[d]], D)
    IN  Divide(n * sxy - SumOver(x, D) * SumOver(y, D), n * (n - 1))

\* np.var(y) over the dates D: the sum of the squared deviations from the
\* mean, divided by len(D)
Var(y, D) ==
    LET n == Cardinality(D)
        syy == SumOver([d \in D |-> y[d] * y[d]], D)
    IN  Divide(n * syy - SumOver(y, D) * SumOver(y, D), n * n)

\* x / y for two finite values, y above zero (common factors taken out first)
Quotient(x, y) ==
    LET g == Gcd(Abs(x.num), y.num)
        h == Gcd(x.den, y.den)
    IN  Divide((x.num \div g) * (y.den \div h), (x.den \div h) * (y.num \div g))

\* _calculate_portfolio_beta, given what the SPY download came back with (a
\* raise, or the benchmark's return series) and the portfolio's return series
CalculatePortfolioBeta(portfolio_returns, spy) ==
    IF spy.raised THEN Finite(1, 1)
    ELSE LET spy_returns == spy.value
             common_dates == Dates(portfolio_returns) \cap Dates(spy_returns)
         IN  IF Cardinality(common_dates) < MinCommonDates THEN Finite(1, 1)
             ELSE LET covariance == Cov(portfolio_returns, spy_returns, common_dates)
                      market_variance == Var(spy_returns, common_dates)
                  IN  IF market_variance.num > 0
                      THEN Quotient(covariance, market_variance)
                      ELSE Finite(1, 1)

\* benchmark series over the days 1..n: the amplitude a with alternating sign
MarketSeries(n, a) == [d \in 1..n |-> IF d % 2 = 1 THEN a ELSE 0 - a]

\* portfolio series over the days 0..n: b times the benchmark's return plus c
\* on every third day; day 0 is a day the benchmark has no return for
PortfolioSeries(n, a, b, c) ==
    [d \in 0..n |-> IF d = 0 THEN MaxReturn
                    ELSE b * MarketSeries(n, a)[d] + (IF d % 3 = 0 THEN c ELSE 0)]

CallCalculatePortfolioBeta ==
    /\ pc = "idle"
    /\ \E n \in (MinCommonDates - 1)..(MinCommonDates + 1), a \in 0..MaxReturn,
          b \in (0 - 1)..2, c \in 0..1, raised \in BOOLEAN :
         LET spy == IF raised THEN Raised("download failed")
                    ELSE Returned(MarketSeries(n, a))
             portfolio_returns == PortfolioSeries(n, a, b, c)
         IN  calc' = [fn |-> "portfolio_beta",
                      portfolio_returns |-> portfolio_returns,
                      spy |-> spy,
                      result |-> CalculatePortfolioBeta(portfolio_returns, spy)]
    /\ pc' = "returned"
    /\ UNCHANGED << credentials, current_user, request, downloaded, call, constraints_list,
                    solver, solver_x, optimal_weights, response, status, log, solver_calls, optimizer, tasks >>

\* a < b on floats: false whenever one side is nan
FloatLess(x, y) ==
    IF x.kind = "nan" \/ y.kind = "nan" THEN FALSE
    ELSE IF x.kind = "-inf" THEN y.kind # "-inf"
    ELSE IF x.kind = "inf" THEN FALSE
    ELSE IF y.kind = "inf" THEN TRUE
    ELSE IF y.kind = "-inf" THEN FALSE
    ELSE x.num * y.den < y.num * x.den

\* Python's min(a, b) and max(a, b): a, unless b compares below (above) it
PyMin(a, b) == IF FloatLess(b, a) THEN b ELSE a
PyMax(a, b) == IF FloatLess(a, b) THEN b ELSE a

RECURSIVE SumSquaresTo(_, _)
SumSquaresTo(w, k) == IF k = 0 THEN 0 ELSE w[k] * w[k] + SumSquaresTo(w, k - 1)

\* np.sum(weights ** 2), in units of 1/Scale^2
SumSquares(w) == SumSquaresTo(w, Len(w))

\* the score before it is clamped: (max_hhi - hhi) / (max_hhi - min_hhi)
\* with max_hhi = 1.0 and min_hhi = 1.0 / len(weights)
RawDiversificationScore(weights) ==
    LET n == Len(weights)
    IN  Divide((Scale * Scale - SumSquares(weights)) * n, Scale * Scale * (n - 1))

\* a score that is returned as computed
DiversificationScoreUnclamped(weights) == RawDiversificationScore(weights)

\* _calculate_diversification_score
DiversificationScore(weights) ==
    PyMax(Finite(0, 1), PyMin(Finite(1, 1), RawDiversificationScore(weights)))

\* weight vectors a metric may be handed: every vector of 1..MaxAssets
\* weights between 0 and just above 1.0, on the simplex or off it
WeightVectors == UNION { [1..n -> 0..Over] : n \in 1..MaxAssets }

CallCalculateDiversificationScore ==
    /\ pc = "idle"
    /\ \E weights \in WeightVectors :
         calc' = [fn |-> "diversification_score",
                  weights |-> weights,
                  result |-> DiversificationScore(weights)]
    /\ pc' = "returned"
    /\ UNCHANGED << credentials, current_user, request, downloaded, call, constraints_list,
                    solver, solver_x, optimal_weights, response, status, log, solver_calls, optimizer, tasks >>

\* largest current price and largest investment amount, in currency units
MaxPrice == 3
MaxInvestment == 6

\* what ticker.history(period="1d") does for one symbol: raises, comes back
\* empty, or ends with a closing price
History(kind, close) == [kind |-> kind, close |-> close]
Histories ==
    { History("raise", 0), History("empty", 0) }
    \cup { History("close", p) : p \in 1..MaxPrice }

\* _get_current_prices: the last close of each symbol, 0.0 for an empty
\* history; one try spans the loop, so a raise for any symbol leaves 0.0 for
\* every symbol
GetCurrentPrices(symbols, history) ==
    IF \E s \in Range(symbols) : history[s].kind = "raise"
    THEN [s \in Range(symbols) |-> 0]
    ELSE [s \in Range(symbols) |->
            IF history[s].kind = "empty" THEN 0 ELSE history[s].close]

\* int(x) of a finite float: the fraction is cut off, towards zero
PyInt(x) == IF x.num >= 0 THEN x.num \div x.den ELSE 0 - ((0 - x.num) \div x.den)

\* a share count rounded up to the next whole share
SharesRoundedUp(allocation_amount, current_price) ==
    IF current_price > 0
    THEN 0 - PyInt(Divide(0 - allocation_amount.num, allocation_amount.den * current_price)) + 1
    ELSE 0

\* optimize, line 58: int(allocation_amount / current_price) if current_price > 0 else 0
Shares(allocation_amount, current_price) ==
    IF current_price > 0
    THEN PyInt(Divide(allocation_amount.num, allocation_amount.den * current_price))
    ELSE 0

\* recommendations that put the whole investment_amount into every symbol
AllocationRecommendationsUnweighted(symbols, weights, investment_amount, current_prices) ==
    [ i \in 1..Len(symbols) |->
        LET allocation_amount == Divide(investment_amount, 1)
            current_price == current_prices[symbols[i]]
        IN  [ symbol |-> symbols[i],
              recommended_weight |-> weights[i],
              recommended_amount |-> allocation_amount,
              recommended_shares |-> Shares(allocation_amount, current_price),
              current_price |-> current_price ] ]

\* optimize, lines 54-72: one recommendation per requested symbol, its weight
\* read at the symbol's position in the request
AllocationRecommendations(symbols, weights, investment_amount, current_prices) ==
    [ i \in 1..Len(symbols) |->
        LET weight == weights[i]
            allocation_amount == Divide(investment_amount * weight, Scale)
            current_price == current_prices[symbols[i]]
        IN  [ symbol |-> symbols[i],
              recommended_weight |-> weight,
              recommended_amount |-> allocation_amount,
              recommended_shares |-> Shares(allocation_amount, current_price),
              current_price |-> current_price ] ]

\* weight vectors on the simplex, n weights
ValidVectors(n) == FeasiblePoints(Bounds(n), << SumConstraint >>)

CallBuildAllocations ==
    /\ pc = "idle"
    /\ \E symbols \in IndexInputs, investment_amount \in 1..MaxInvestment :
         \E weights \in ValidVectors(Len(symbols)),
            history \in [Range(symbols) -> Histories] :
           LET current_prices == GetCurrentPrices(symbols, history)
           IN  calc' = [fn |-> "allocations",
                        symbols |-> symbols,
                        optimal_weights |-> weights,
                        investment_amount |-> investment_amount,
                        history |-> history,
                        result |-> AllocationRecommendations(symbols, weights,
                                                             investment_amount, current_prices)]
    /\ pc' = "returned"
    /\ UNCHANGED << credentials, current_user, request, downloaded, call, constraints_list,
                    solver, solver_x, optimal_weights, response, status, log, solver_calls, optimizer, tasks >>

\* covariance matrices of n assets: a diagonal of own variances d plus the
\* part f f' that a common factor with loadings f adds; symmetric and
\* positive semi-definite by construction, the zero matrix (every price
\* constant over the window) among them
CovMatrices(n) ==
    { [i \in 1..n |-> [j \in 1..n |-> (IF i = j THEN d[i] ELSE 0) + f[i] * f[j]]] :
        d \in [1..n -> 0..1], f \in [1..n -> (0 - 1)..1] }

\* np.dot(cov_matrix, weights)[i]
MatVec(cov_matrix, weights, i) ==
    Sum([j \in 1..Len(weights) |-> cov_matrix[i][j] * weights[j]])

\* np.dot(weights.T, np.dot(cov_matrix, weights))
QuadForm(cov_matrix, weights) ==
    Sum([i \in 1..Len(weights) |-> weights[i] * MatVec(cov_matrix, weights, i)])

\* _calculate_risk_contribution
RiskContribution(weights, cov_matrix, asset_idx) ==
    Divide(weights[asset_idx] * MatVec(cov_matrix, weights, asset_idx),
           QuadForm(cov_matrix, weights))

CallCalculateRiskContribution ==
    /\ pc = "idle"
    /\ \E n \in 1..MaxAssets :
         \E weights \in ValidVectors(n), cov_matrix \in CovMatrices(n) :
           calc' = [fn |-> "risk_contribution",
                    weights |-> weights,
                    cov_matrix |-> cov_matrix,
                    result |-> [i \in 1..n |-> RiskContribution(weights, cov_matrix, i)]]
    /\ pc' = "returned"
    /\ UNCHANGED << credentials, current_user, request, downloaded, call, constraints_list,
                    solver, solver_x, optimal_weights, response, status, log, solver_calls, optimizer, tasks >>

\* _generate_rebalancing_suggestions reads weights against 0.4 and 0.02; its
\* weights are whole hundredths here, Percent of them the weight 1.0
Percent == 100
ConcentrationLimit == 40
SmallPositionLimit == 2

\* hundredths around the two limits, and fillers
WeightLevels == {0, 1, 2, 29, 30, 40, 41, 58}

\* weight vectors on the simplex: all weights but the last from WeightLevels,
\* the last one the remainder; up to MaxAssets + 2 weights, so that vectors
\* without a weight above 0.4 (three weights or more), also with a weight
\* below 0.02 (four or more), are among them
PercentVectors ==
    { w \in UNION { { Append(v, Percent - Sum(v)) : v \in [1..(n - 1) -> WeightLevels] } :
                      n \in 1..(MaxAssets + 2) } :
        w[Len(w)] >= 0 }

\* np.max(weights)
MaxWeight(weights) ==
    CHOOSE m \in Range(weights) : \A x \in Range(weights) : x <= m

\* np.min(weights): the smallest weight, zero weights included
MinWeightOfAll(weights) ==
    CHOOSE m \in Range(weights) : \A x \in Range(weights) : m <= x

\* np.min(weights[weights > 0])
MinPositiveWeight(weights) ==
    LET positive == { x \in Range(weights) : x > 0 }
    IN  CHOOSE m \in positive : \A x \in positive : m <= x

\* _generate_rebalancing_suggestions
GenerateRebalancingSuggestions(weights, risk_tolerance) ==
    (IF MaxWeight(weights) > ConcentrationLimit
     THEN << "reduce_concentration" >> ELSE << >>)
    \o (IF MinPositiveWeight(weights) < SmallPositionLimit
        THEN << "eliminate_small_positions" >> ELSE << >>)
    \o (IF risk_tolerance = "conservative" THEN << "monthly_rebalancing" >>
        ELSE IF risk_tolerance = "aggressive" THEN << "quarterly_rebalancing_growth" >>
        ELSE << "quarterly_or_five_percent_drift" >>)

CallGenerateRebalancingSuggestions ==
    /\ pc = "idle"
    /\ \E weights \in PercentVectors, risk_tolerance \in RiskTolerances :
         calc' = [fn |-> "rebalancing_suggestions",
                  weights |-> weights,
                  risk_tolerance |-> risk_tolerance,
                  result |-> GenerateRebalancingSuggestions(weights, risk_tolerance)]
    /\ pc' = "returned"
    /\ UNCHANGED << credentials, current_user, request, downloaded, call, constraints_list,
                    solver, solver_x, optimal_weights, response, status, log, solver_calls, optimizer, tasks >>

\* longest daily return series handed to _calculate_max_drawdown
MaxDays == 3

\* a daily return of k is k / ReturnDen, so every return lies within -0.5..0.5
ReturnDen == 2 * MaxReturn

ReturnSeries == UNION { [1..n -> (0 - MaxReturn)..MaxReturn] : n \in 0..MaxDays }

RECURSIVE Power(_, _)
Power(b, k) == IF k = 0 THEN 1 ELSE b * Power(b, k - 1)

\* (1 + portfolio_returns).cumprod() at day t, in units of 1 / ReturnDen^Len
RECURSIVE Cumulative(_, _)
Cumulative(portfolio_returns, t) ==
    IF t = 0 THEN Power(ReturnDen, Len(portfolio_returns))
    ELSE (Cumulative(portfolio_returns, t - 1) * (ReturnDen + portfolio_returns[t]))
             \div ReturnDen

\* the highest value of the whole series, whatever the day
RunningMaxOverall(portfolio_returns, t) ==
    LET values == { Cumulative(portfolio_returns, s) : s \in 1..Len(portfolio_returns) }
    IN  CHOOSE m \in values : \A v \in values : v <= m

\* cumulative.expanding().max() at day t: the highest value up to that day
RunningMax(portfolio_returns, t) ==
    LET values == { Cumulative(portfolio_returns, s) : s \in 1..t }
    IN  CHOOSE m \in values : \A v \in values : v <= m

\* (cumulative - running_max) / running_max at day t
Drawdown(portfolio_returns, t) ==
    Divide(Cumulative(portfolio_returns, t) - RunningMax(portfolio_returns, t),
           RunningMax(portfolio_returns, t))

\* abs(x) of a float
FloatAbs(x) ==
    IF x.kind = "-inf" THEN PosInf
    ELSE IF IsFinite(x) THEN Finite(Abs(x.num), x.den)
    ELSE x

\* _calculate_max_drawdown: abs of the lowest drawdown; the minimum of an
\* empty series is nan, and abs(nan) is nan; 0.1 when the computation raises
CalculateMaxDrawdown(portfolio_returns, raised) ==
    IF raised THEN Finite(1, 10)
    ELSE IF Len(portfolio_returns) = 0 THEN NaN
    ELSE LET drawdown == { Drawdown(portfolio_returns, t) : t \in 1..Len(portfolio_returns) }
         IN  FloatAbs(CHOOSE m \in drawdown : \A d \in drawdown : ~FloatLess(d, m))

CallCalculateMaxDrawdown ==
    /\ pc = "idle"
    /\ \E portfolio_returns \in ReturnSeries, raised \in BOOLEAN :
         calc' = [fn |-> "max_drawdown",
                  portfolio_returns |-> portfolio_returns,
                  raised |-> raised,
                  result |-> CalculateMaxDrawdown(portfolio_returns, raised)]
    /\ pc' = "returned"
    /\ UNCHANGED << credentials, current_user, request, downloaded, call, constraints_list,
                    solver, solver_x, optimal_weights, response, status, log, solver_calls, optimizer, tasks >>


\* _calculate_var's confidence_level * 100: the percentile that is taken
ConfidenceLevel == 5

\* the k-th smallest value of a series, equal values counted as often as
\* they occur
KthSmallest(series, k) ==
    CHOOSE v \in Range(series) :
        /\ Cardinality({ t \in DOMAIN series : series[t] < v }) < k
        /\ Cardinality({ t \in DOMAIN series : series[t] <= v }) >= k

\* np.percentile(series, q) of a non-empty series, linear interpolation: the
\* value at position (n - 1) * q / 100 of the sorted series, in units of
\* 1 / ReturnDen
Percentile(series, q) ==
    LET n == Len(series)
        below == ((n - 1) * q) \div 100
        gamma == ((n - 1) * q) % 100
        a == KthSmallest(series, below + 1)
        b == IF below + 2 <= n THEN KthSmallest(series, below + 2) ELSE a
    IN  Divide(100 * a + gamma * (b - a), 100 * ReturnDen)

\* a value at risk that keeps the sign of the percentile
CalculateVarSigned(portfolio_returns, raised) ==
    IF raised \/ Len(portfolio_returns) = 0 THEN Finite(1, 20)
    ELSE Percentile(portfolio_returns, ConfidenceLevel)

\* _calculate_var: abs of the 5th percentile of the portfolio's daily
\* returns; np.percentile raises on an empty series (there is no last
\* element to read), and whatever raises inside the try gives 0.05
CalculateVar(portfolio_returns, raised) ==
    IF raised \/ Len(portfolio_returns) = 0 THEN Finite(1, 20)
    ELSE FloatAbs(Percentile(portfolio_returns, ConfidenceLevel))

CallCalculateVar ==
    /\ pc = "idle"
    /\ \E portfolio_returns \in ReturnSeries, raised \in BOOLEAN :
         calc' = [fn |-> "var",
                  portfolio_returns |-> portfolio_returns,
                  raised |-> raised,
                  result |-> CalculateVar(portfolio_returns, raised)]
    /\ pc' = "returned"
    /\ UNCHANGED << credentials, current_user, request, downloaded, call, constraints_list,
                    solver, solver_x, optimal_weights, response, status, log, solver_calls, optimizer, tasks >>


\* ticker.info['longName'] as the data provider reports it
LongNameOf(s) ==
    CASE s = "AAPL" -> "Apple Inc."
      [] s = "MSFT" -> "Microsoft Corporation"
      [] s = "XOM" -> "Exxon Mobil Corporation"

\* what yf.Ticker(symbol).info does: raises (no dict is read then), or gives
\* a dict that holds longName and sector, one of them, or neither
Lookup(raised, keys, symbol) ==
    [raised |-> raised,
     value |-> [has |-> keys, longName |-> LongNameOf(symbol), sector |-> SectorOf(symbol)]]

TickerInfos(symbol) ==
    { Lookup(TRUE, {}, symbol) }
    \cup { Lookup(FALSE, keys, symbol) : keys \in SUBSET {"longName", "sector"} }

\* info.get(key, default)
InfoGet(info, key, default) ==
    IF key \in info.has
    THEN (IF key = "longName" THEN info.longName ELSE info.sector)
    ELSE default

\* a lookup whose missing fields stay empty
GetCompanyInfoNoDefault(symbol, lookup) ==
    IF lookup.raised THEN [name |-> "", sector |-> ""]
    ELSE [name |-> InfoGet(lookup.value, "longName", ""),
          sector |-> InfoGet(lookup.value, "sector", "")]

\* _get_company_info
GetCompanyInfo(symbol, lookup) ==
    IF lookup.raised THEN [name |-> symbol, sector |-> "Unknown"]
    ELSE [name |-> InfoGet(lookup.value, "longName", symbol),
          sector |-> InfoGet(lookup.value, "sector", "Unknown")]

\* optimize, lines 61-71: the company fields of a symbol's allocation; the
\* dict _get_company_info returns always holds both keys
CompanyFields(symbol, company_info) ==
    [symbol |-> symbol,
     company_name |-> company_info.name,
     sector |-> company_info.sector]

CallGetCompanyInfo ==
    /\ pc = "idle"
    /\ \E symbol \in Universe :
         \E lookup \in TickerInfos(symbol) :
           calc' = [fn |-> "company_info",
                    symbol |-> symbol,
                    lookup |-> lookup,
                    result |-> CompanyFields(symbol, GetCompanyInfo(symbol, lookup))]
    /\ pc' = "returned"
    /\ UNCHANGED << credentials, current_user, request, downloaded, call, constraints_list,
                    solver, solver_x, optimal_weights, response, status, log, solver_calls, optimizer, tasks >>


\* timedelta(hours=1), in minutes
TokenLifetime == 60

\* secret_key, the same literal in create_jwt_token and verify_jwt_token
SecretKey == "your-super-secret-key-that-is-at-least-32-characters-long-for-security"

\* create_jwt_token at the time now (minutes): the claims and the key they
\* are signed with; roles << >> is a call without roles, or with none
CreateJwtToken(user_id, email, roles, now) ==
    [payload |-> [user_id |-> user_id,
                  email |-> email,
                  roles |-> IF roles = << >> THEN << "User" >> ELSE roles,
                  iat |-> now,
                  exp |-> now + TokenLifetime,
                  iss |-> "StockTradingAPI",
                  aud |-> "StockTradingClient"],
     key |-> SecretKey]

\* a created token as jwt.decode sees it at the time now: it parses, its
\* signature fits the key it was signed with, it is expired from exp on,
\* and it carries an aud claim
Presented(token, now) ==
    Token(TRUE, token.key = SecretKey, token.payload.exp <= now,
          token.payload.aud # None)

\* verify_jwt_token(create_jwt_token(...)) at the time now: the claims of
\* the token where jwt.decode accepts it
VerifyCreatedToken(token, now) ==
    LET verified == VerifyJwtToken(Presented(token, now))
    IN  IF verified.raised THEN verified ELSE Returned(token.payload)

CallTokenRoundTrip ==
    /\ pc = "idle"
    /\ \E user_id \in {"user-1", "user-2"}, email \in {"a@example.com", "b@example.com"},
          roles \in {<< >>, << "Admin" >>, << "User", "Trader" >>}, issued \in 0..1 :
         \E now \in {issued, issued + TokenLifetime - 1, issued + TokenLifetime,
                     issued + TokenLifetime + 1} :
           LET token == CreateJwtToken(user_id, email, roles, issued)
           IN  calc' = [fn |-> "token_round_trip",
                        user_id |-> user_id,
                        email |-> email,
                        roles |-> roles,
                        issued |-> issued,
                        now |-> now,
                        token |-> token,
                        result |-> VerifyCreatedToken(token, now)]
    /\ pc' = "returned"
    /\ UNCHANGED << credentials, current_user, request, downloaded, call, constraints_list,
                    solver, solver_x, optimal_weights, response, status, log,
                    solver_calls, optimizer, tasks >>

NextMetrics ==
    \/ CallSharpeRatio
    \/ CallCalculatePortfolioBeta
    \/ CallCalculateDiversificationScore
    \/ CallBuildAllocations
    \/ CallCalculateRiskContribution
    \/ CallGenerateRebalancingSuggestions
    \/ CallCalculateMaxDrawdown
    \/ CallCalculateVar
    \/ CallGetCompanyInfo
    \/ CallTokenRoundTrip
    \/ Finish

SpecMetrics == Init /\ [][NextMetrics]_vars

----------------------------------------------------------------------------
(* Properties *)

\* a weight vector on the simplex: sums to 1.0, every weight within [0, 1]
ValidWeights(w) ==
    /\ Sum(w) = Scale
    /\ \A i \in 1..Len(w) : 0 <= w[i] /\ w[i] <= Scale

\* the weights a response reports, in the order of its allocations
ReportedWeights(resp) ==
    [i \in 1..Len(resp.allocations) |-> resp.allocations[i].recommended_weight]

\* the weight a response reports for one symbol
ReportedWeightOf(resp, sym) ==
    LET i == CHOOSE j \in 1..Len(resp.allocations) : resp.allocations[j].symbol = sym
    IN  resp.allocations[i].recommended_weight

RECURSIVE SectorWeightTo(_, _, _)
SectorWeightTo(resp, sector, k) ==
    IF k = 0 THEN 0
    ELSE SectorWeightTo(resp, sector, k - 1)
         + (IF resp.allocations[k].sector = sector
            THEN resp.allocations[k].recommended_weight ELSE 0)

\* the summed reported weight of the symbols of one sector
SectorWeight(resp, sector) == SectorWeightTo(resp, sector, Len(resp.allocations))

Succeeded == pc = "done" /\ status = 200

FellBack(s) == s \in {"not_converged", "raised"}

\* a max/min weight constraint that names a requested symbol / one that does not
Applicable(c, symbols) ==
    c.type \in {"max_weight", "min_weight"} /\ c.symbol # None /\ c.symbol \in Range(symbols)
AbsentRef(c, symbols) ==
    c.type \in {"max_weight", "min_weight"} /\ c.symbol # None /\ c.symbol \notin Range(symbols)

\* C1: every successful request is answered from a weight vector that sums to
\* 1 and keeps each weight within [0, 1], whatever the risk tolerance and the
\* constraint values (also values outside [0, 1]).
C1_WeightsOnSimplex ==
    Succeeded =>
        /\ Len(optimal_weights) = Len(request.symbols)
        /\ ValidWeights(optimal_weights)
        /\ ValidWeights(ReportedWeights(response))

\* a converged solve of a request that carries a constraint value outside [0, 1]
\* on one of its own symbols
C1_Witness ==
    /\ Succeeded
    /\ solver = "converged"
    /\ Len(request.symbols) >= 2
    /\ \E k \in 1..Len(request.constraints) :
         /\ Applicable(request.constraints[k], request.symbols)
         /\ request.constraints[k].value \notin 0..Scale

\* C2: when the solver does not converge, or the solve raises,
\* _optimize_weights returns the equal weights 1/N and the request is still
\* answered 200 with every allocation at 1/N.
C2_FallbackIsEqualWeights ==
    (pc = "done" /\ FellBack(solver)) =>
        /\ status = 200
        /\ Len(optimal_weights) = Len(call.index)
        /\ \A i \in 1..Len(optimal_weights) : optimal_weights[i] * Len(call.index) = Scale
        /\ Len(response.allocations) = Len(request.symbols)
        /\ \A i \in 1..Len(response.allocations) :
             response.allocations[i].recommended_weight * Len(request.symbols) = Scale
        /\ (solver = "not_converged" => << "warning", "optimization_failed" >> \in log)
        /\ (solver = "raised" => << "error", "optimization_error" >> \in log)

\* a request of two or more symbols whose solve did not converge
C2_Witness ==
    /\ pc = "done"
    /\ solver = "not_converged"
    /\ Len(request.symbols) >= 2

\* C3: a converged result whose vector breaks the sum or the bounds is
\* treated as a fallback: _optimize_weights returns the equal weights.
C3_InvalidVectorFallsBack ==
    (pc = "returned" /\ solver = "converged" /\ ~ValidWeights(solver_x)) =>
        optimal_weights = EqualWeights(Len(call.index))

\* C4: a response built after a fallback differs from every response the same
\* request gets from a converged solve (and the other way round).
C4_FallbackDistinguishable ==
    Succeeded =>
        \A result \in Minimize(EqualWeights(Len(call.index)), Bounds(Len(call.index)),
                               constraints_list) :
            LET other == OptimizeWeights(call.index, call.objective, call.constraints, result)
            IN  BuildResponse(request.symbols, other.weights) = response
                    => FellBack(other.solver) = FellBack(solver)

\* C5: the solve uses the objective of the request when the request carries
\* one, the risk-tolerance mapping otherwise; an equal_weight request is
\* answered with 1/N for every symbol.
C5_RequestObjectiveUsed ==
    Succeeded =>
        /\ (request.objective # None => call.objective = request.objective)
        /\ (request.objective = None =>
              call.objective = (CASE request.risk_tolerance = "conservative" -> "min_risk"
                                  [] request.risk_tolerance = "aggressive" -> "max_return"
                                  [] request.risk_tolerance = "moderate" -> "max_sharpe"))
        /\ (request.objective = "equal_weight" =>
              \A i \in 1..Len(response.allocations) :
                 response.allocations[i].recommended_weight * Len(request.symbols) = Scale)

\* C6: called with equal_weight, _optimize_weights returns exactly 1/N for
\* every asset, without a solve, whatever the constraint list.
C6_EqualWeightExact ==
    (pc = "returned" /\ call.objective = "equal_weight") =>
        /\ solver = "not_called"
        /\ Len(optimal_weights) = Len(call.index)
        /\ \A i \in 1..Len(optimal_weights) : optimal_weights[i] * Len(call.index) = Scale

\* an equal_weight call whose constraint list caps a symbol of the index
\* below the weight it was given
C6_Witness ==
    /\ pc = "returned"
    /\ call.objective = "equal_weight"
    /\ \E k \in 1..Len(call.constraints) :
         /\ Applicable(call.constraints[k], call.index)
         /\ call.constraints[k].type = "max_weight"
         /\ optimal_weights[GetLoc(call.index, call.constraints[k].symbol)]
                > call.constraints[k].value

\* C7: a request for one symbol is answered with the weight vector [1.0],
\* whether the solver converged or the optimizer fell back.
C7_SingleSymbolAllIn ==
    (Succeeded /\ Len(request.symbols) = 1) =>
        /\ optimal_weights = << Scale >>
        /\ ReportedWeights(response) = << Scale >>

\* a one-symbol request whose cap on that symbol cannot be met, answered by
\* the fallback
C7_Witness ==
    /\ Succeeded
    /\ Len(request.symbols) = 1
    /\ FellBack(solver)
    /\ \E k \in 1..Len(request.constraints) :
         /\ Applicable(request.constraints[k], request.symbols)
         /\ request.constraints[k].type = "max_weight"
         /\ request.constraints[k].value < Scale

\* C8: a max/min weight constraint on a symbol outside the request adds no
\* inequality and leaves a warning; the request is not failed by it (an
\* authenticated request fails only when the fetch fails), the
\* constraints on requested symbols are still handed to the solver (and met
\* by a converged vector at the column they are bound to), and the weights
\* stay on the simplex.
C8_AbsentSymbolDropped ==
    /\ (pc = "done" /\ current_user # NoUser /\ status # 200)
          => << "error", "fetch_failed" >> \in log
    /\ Succeeded =>
        /\ Len(constraints_list) =
              1 + Cardinality({ k \in 1..Len(request.constraints) :
                                  Applicable(request.constraints[k], request.symbols) })
        /\ \A k \in 1..Len(request.constraints) :
             LET c == request.constraints[k]
             IN  /\ AbsentRef(c, request.symbols) =>
                        << "warning", "symbol_not_found", c.symbol >> \in log
                 /\ Applicable(c, request.symbols) =>
                        \E j \in 1..Len(constraints_list) :
                            /\ constraints_list[j].type = "ineq"
                            /\ constraints_list[j].kind = (IF c.type = "max_weight" THEN "max" ELSE "min")
                            /\ constraints_list[j].val = c.value
                            /\ call.index[constraints_list[j].i] = c.symbol
                            /\ solver = "converged" =>
                                  IF c.type = "max_weight"
                                  THEN solver_x[constraints_list[j].i] <= c.value
                                  ELSE solver_x[constraints_list[j].i] >= c.value
        /\ ValidWeights(optimal_weights)

\* a converged solve of a request for two or more symbols with one constraint
\* on an absent symbol and one, with a value in [0, 1], on a requested symbol
C8_Witness ==
    /\ Succeeded
    /\ solver = "converged"
    /\ Len(request.symbols) >= 2
    /\ \E k \in 1..Len(request.constraints) : AbsentRef(request.constraints[k], request.symbols)
    /\ \E k \in 1..Len(request.constraints) :
         /\ Applicable(request.constraints[k], request.symbols)
         /\ request.constraints[k].value \in 0..Scale

\* C9: after a converged solve, the weight reported for a symbol respects
\* every MaxWeight and MinWeight constraint on that symbol, whatever the order
\* of the requested symbols.
C9_ReportedWeightMeetsConstraint ==
    (Succeeded /\ solver = "converged") =>
        \A k \in 1..Len(request.constraints) :
            LET c == request.constraints[k]
            IN  Applicable(c, request.symbols) =>
                    IF c.type = "max_weight"
                    THEN ReportedWeightOf(response, c.symbol) <= c.value
                    ELSE ReportedWeightOf(response, c.symbol) >= c.value

\* C10: after a converged solve, the reported weights of the symbols of a
\* sector sum to at most the value of every SectorLimit on that sector.
C10_SectorLimitMet ==
    (Succeeded /\ solver = "converged") =>
        \A k \in 1..Len(request.constraints) :
            LET c == request.constraints[k]
            IN  c.type = "sector_limit" => SectorWeight(response, c.sector) <= c.value

C12_StatusMapping ==
    (pc = "done" /\ current_user # NoUser) =>
        /\ status \in {200, 500}
        /\ status = 500 <=> downloaded.raised
        /\ status = 500 =>
              /\ response = ErrorBody(<< "Portfolio optimization failed", downloaded.error >>)
              /\ optimal_weights = << >>
        /\ status = 200 =>
              /\ Len(response.allocations) = Len(request.symbols)
              /\ ReportedWeights(response) =
                    [i \in 1..Len(request.symbols) |-> optimal_weights[i]]
        /\ FellBack(solver) => status = 200

\* a request answered 200 from the fallback after the solve raised
C12_Witness ==
    /\ pc = "done"
    /\ current_user # NoUser
    /\ solver = "raised"
    /\ status = 200
    /\ Len(request.symbols) >= 2

\* the endpoint function has been entered for the request at hand
OptimizeInvoked == << "info", "portfolio_optimization_request" >> \in log

\* a token that does not parse, whose signature does not match, or whose exp
\* has passed
BadCredential(token) == ~token.wellformed \/ ~token.signed \/ token.expired

\* C13: a request whose bearer token is malformed, wrongly signed or expired
\* is answered 401 and never reaches the optimizer; optimize is entered only
\* in a step that starts with the payload verify_jwt_token returned for the
\* request's token; and an answered 401 is followed by nothing but the end of
\* the request (no second attempt).
C13_AuthBeforeOptimize ==
    /\ [](OptimizeInvoked => (current_user = Payload /\ ~BadCredential(credentials)))
    /\ []((pc = "done" /\ BadCredential(credentials)) =>
            /\ status = 401
            /\ response = ErrorBody(<< "Invalid authentication credentials" >>)
            /\ ~OptimizeInvoked
            /\ downloaded = NoDownload
            /\ call = NoCall)
    /\ [][(~OptimizeInvoked /\ OptimizeInvoked') =>
            (pc = "authenticated" /\ current_user = Payload)]_vars
    /\ [][status = 401 => (pc' = "idle" /\ status' = 0 /\ ~OptimizeInvoked')]_vars

\* a request with an expired, otherwise sound token, answered 401
C13_Witness ==
    /\ pc = "done"
    /\ status = 401
    /\ credentials.wellformed
    /\ credentials.signed
    /\ credentials.expired

Called(fn) == pc = "returned" /\ calc.fn = fn

\* C14: the Sharpe ratio is (expected return - risk-free rate) / volatility
\* when the volatility is not zero, and 0 when it is zero; it is never
\* infinite or NaN.
C14_SharpeZeroVolatility ==
    Called("sharpe_ratio") =>
        IF calc.portfolio_volatility = 0
        THEN calc.result = Finite(0, 1)
        ELSE FloatEq(calc.result,
                     Finite(calc.portfolio_return - RiskFreeRate, calc.portfolio_volatility))

\* the slope of the portfolio's returns on the benchmark's over the dates D:
\* covariance over variance, both with the same divisor
Slope(x, y, D) ==
    LET n == Cardinality(D)
        sxy == SumOver([d \in D |-> x[d] * y[d]], D)
        syy == SumOver([d \in D |-> y[d] * y[d]], D)
    IN  Divide(n * sxy - SumOver(x, D) * SumOver(y, D),
               n * syy - SumOver(y, D) * SumOver(y, D))

\* C15: _calculate_portfolio_beta returns 1.0 when the benchmark download
\* raises, when fewer than 50 dates are shared, and when the benchmark's
\* variance over the shared dates is zero; otherwise it returns the covariance
\* of portfolio and benchmark over the benchmark's variance, over the shared
\* dates only.  It always returns a finite number.
C15_BetaIsCovOverVar ==
    Called("portfolio_beta") =>
        LET common == IF calc.spy.raised THEN {}
                      ELSE Dates(calc.portfolio_returns) \cap Dates(calc.spy.value)
        IN  /\ IsFinite(calc.result)
            /\ IF calc.spy.raised \/ Cardinality(common) < 50
               THEN calc.result = Finite(1, 1)
               ELSE LET slope == Slope(calc.portfolio_returns, calc.spy.value, common)
                    IN  IF IsFinite(slope) THEN FloatEq(calc.result, slope)
                        ELSE calc.result = Finite(1, 1)

\* the vector [1, 0, 0, ...] of n weights
Concentrated(n) == [i \in 1..n |-> IF i = 1 THEN Scale ELSE 0]

C17_AmountAndShares ==
    Called("allocations") =>
        /\ Len(calc.result) = Len(calc.symbols)
        /\ \A i \in 1..Len(calc.symbols) :
             LET a == calc.result[i]
                 units == calc.investment_amount * calc.optimal_weights[i]
             IN  /\ a.symbol = calc.symbols[i]
                 /\ a.recommended_weight = calc.optimal_weights[i]
                 /\ FloatEq(a.recommended_amount, Finite(units, Scale))
                 /\ a.recommended_shares \in Nat
                 /\ a.current_price > 0 =>
                       /\ a.recommended_shares * a.current_price * Scale <= units
                       /\ units < (a.recommended_shares + 1) * a.current_price * Scale
                 /\ a.current_price = 0 => a.recommended_shares = 0
                 /\ calc.history[a.symbol].kind \in {"raise", "empty"} =>
                       (a.current_price = 0 /\ a.recommended_shares = 0)

\* a recommendation of at least one share whose amount is not a whole number
\* of shares
C17_Witness ==
    /\ Called("allocations")
    /\ \E i \in 1..Len(calc.symbols) :
         /\ calc.result[i].current_price > 1
         /\ calc.result[i].recommended_shares >= 1
         /\ calc.result[i].recommended_shares * calc.result[i].current_price * Scale
               < calc.investment_amount * calc.optimal_weights[i]

\* x + y on floats; anything that is not finite makes the sum nan
FloatAdd(x, y) ==
    IF IsFinite(x) /\ IsFinite(y)
    THEN Divide(x.num * y.den + y.num * x.den, x.den * y.den)
    ELSE NaN

RECURSIVE FloatSumTo(_, _)
FloatSumTo(xs, k) == IF k = 0 THEN Finite(0, 1) ELSE FloatAdd(FloatSumTo(xs, k - 1), xs[k])

\* C18: for every weight vector on the simplex, zero weights included, each
\* risk contribution w_i (Sigma w)_i / (w' Sigma w) is a defined number and
\* the contributions of one response sum to 1.
C18_RiskContributionsSumToOne ==
    Called("risk_contribution") =>
        /\ \A i \in 1..Len(calc.result) : IsFinite(calc.result[i])
        /\ FloatSumTo(calc.result, Len(calc.result)) = Finite(1, 1)

CadenceSuggestions ==
    {"monthly_rebalancing", "quarterly_rebalancing_growth", "quarterly_or_five_percent_drift"}

\* C19: for a valid weight vector and a risk tolerance the suggestions hold
\* the reduce-concentration text exactly when some weight is above 0.4, the
\* eliminate-small-positions text exactly when some weight above zero is
\* below 0.02, and exactly one cadence text, the one of the risk tolerance;
\* so between 1 and 3 texts, none twice, each check unaffected by the others.
C19_RebalancingSuggestions ==
    Called("rebalancing_suggestions") =>
        LET w == calc.weights
            out == calc.result
        IN  /\ "reduce_concentration" \in Range(out)
                  <=> \E i \in 1..Len(w) : w[i] * 10 > 4 * Percent
            /\ "eliminate_small_positions" \in Range(out)
                  <=> \E i \in 1..Len(w) : w[i] > 0 /\ w[i] * 100 < 2 * Percent
            /\ Range(out) \cap CadenceSuggestions =
                  { CASE calc.risk_tolerance = "conservative" -> "monthly_rebalancing"
                      [] calc.risk_tolerance = "aggressive" -> "quarterly_rebalancing_growth"
                      [] calc.risk_tolerance = "moderate" -> "quarterly_or_five_percent_drift" }
            /\ Len(out) \in 1..3
            /\ Cardinality(Range(out)) = Len(out)
            /\ out[Len(out)] \in CadenceSuggestions

\* a vector with no weight above 0.4 and a position of 0.01: the small-position
\* text without the concentration text
C19_Witness ==
    /\ Called("rebalancing_suggestions")
    /\ Len(calc.result) = 2
    /\ calc.result[1] = "eliminate_small_positions"
    /\ \A i \in 1..Len(calc.weights) : calc.weights[i] <= ConcentrationLimit

\* a return series in which every day's return is above the day before's
StrictlyIncreasing(r) == \A t \in 2..Len(r) : r[t - 1] < r[t]

C21_ValueAtRisk ==
    Called("var") =>
        LET r == calc.portfolio_returns
            n == Len(r)
            lowest == CHOOSE t \in 1..n : \A u \in 1..n : r[t] <= r[u]
            rest == (1..n) \ {lowest}
            second == IF rest = {} THEN r[lowest]
                      ELSE r[CHOOSE t \in rest : \A u \in rest : r[t] <= r[u]]
            fifth == 100 * r[lowest] + 5 * (n - 1) * (second - r[lowest])
        IN  /\ IsFinite(calc.result)
            /\ calc.result.num >= 0
            /\ (calc.raised \/ n = 0) => calc.result = Finite(1, 20)
            /\ (~calc.raised /\ n > 0) =>
                   FloatEq(calc.result, Divide(Abs(fifth), 100 * ReturnDen))

\* a loss at the 5th percentile of a series of several days, reported as a
\* positive value at risk
C21_Witness ==
    /\ Called("var")
    /\ ~calc.raised
    /\ Len(calc.portfolio_returns) >= 2
    /\ \E t \in DOMAIN calc.portfolio_returns : calc.portfolio_returns[t] < 0
    /\ \E t, u \in DOMAIN calc.portfolio_returns :
           calc.portfolio_returns[t] # calc.portfolio_returns[u]
    /\ calc.result.num > 0

\* C22: unavailable company metadata does not fail the allocation: when the
\* lookup raises, the symbol's allocation carries the symbol as company_name
\* and "Unknown" as sector; when the lookup answers without longName the
\* company_name is the symbol, without sector the sector is "Unknown"; a
\* field the lookup does hold is passed on as it is.
C22_CompanyInfoFallback ==
    Called("company_info") =>
        LET lookup == calc.lookup
            a == calc.result
            lacks(key) == lookup.raised \/ key \notin lookup.value.has
        IN  /\ a.symbol = calc.symbol
            /\ lacks("longName") => a.company_name = calc.symbol
            /\ lacks("sector") => a.sector = "Unknown"
            /\ ~lacks("longName") => a.company_name = lookup.value.longName
            /\ ~lacks("sector") => a.sector = lookup.value.sector

\* a lookup that answered with a name and without a sector
C22_Witness ==
    /\ Called("company_info")
    /\ calc.symbol = "XOM"
    /\ ~calc.lookup.raised
    /\ calc.lookup.value.has = {"longName"}
    /\ calc.result.company_name = "Exxon Mobil Corporation"
    /\ calc.result.sector = "Unknown"

\* what a request is answered when it is served alone: the fetched table,
\* one _optimize_weights call, the response from its weights
ServedAlone(r, data, result) ==
    IF data.raised
    THEN [status |-> 500,
          response |-> ErrorBody(<< "Portfolio optimization failed", data.error >>)]
    ELSE [status |-> 200,
          response |-> BuildResponse(r.symbols,
                           OptimizeWeights(data.columns,
                                           GetOptimizationObjective(r.risk_tolerance),
                                           r.constraints, result).weights)]

\* C23: requests are independent: however the steps of the requests in
\* progress interleave, the fields of the shared PortfolioOptimizer stay as
\* __init__ set them, a step of one request leaves the locals of every
\* other request alone, and the answer of a finished request is the one it
\* gets when served alone with the same table and the same solver result.
C23_RequestsIndependent ==
    /\ [](optimizer = PortfolioOptimizer)
    /\ [][\A p, q \in Tasks :
            (p # q /\ tasks'[p] # tasks[p]) => tasks'[q] = tasks[q]]_vars
    /\ [](\A p \in Tasks :
            tasks[p].pc = "done" =>
                LET alone == ServedAlone(tasks[p].request, tasks[p].data, tasks[p].result)
                IN  /\ tasks[p].status = alone.status
                    /\ tasks[p].response = alone.response)

\* two requests for as many assets, both past the solver with different
\* weights, one of them answered while the other is still in progress
C23_Witness ==
    \E p, q \in Tasks :
        /\ tasks[p].pc = "done" /\ tasks[p].status = 200
        /\ tasks[q].pc = "optimized"
        /\ Len(tasks[q].optimal_weights) = Len(tasks[p].optimal_weights)
        /\ tasks[q].optimal_weights # tasks[p].optimal_weights

\* C24: within one request the solver is invoked at most once: at no point
\* of a request has minimize been invoked more than once; a request that
\* reached the solver has invoked it exactly once when it is answered, and
\* a solve that did not converge or that raised is followed by the equal
\* weights, not by another solve.
C24_SolverInvokedAtMostOnce ==
    /\ solver_calls <= 1
    /\ (pc = "done" /\ status = 200) =>
           /\ (solver = "not_called") = (solver_calls = 0)
           /\ solver \in {"not_converged", "raised"} =>
                  /\ solver_calls = 1
                  /\ optimal_weights = EqualWeights(Len(call.index))

\* a solve that did not converge, answered with the equal weights after
\* one invocation
C24_Witness ==
    /\ pc = "done"
    /\ status = 200
    /\ solver = "not_converged"
    /\ solver_calls = 1
    /\ Len(call.index) = 2
    /\ optimal_weights = EqualWeights(2)

\* C25: every optimize request eventually ends: a request whose download is
\* outstanding is answered in the end, whether or not the data provider
\* ever answers.
C25_RequestEventuallyEnds == (pc = "fetching") ~> (pc = "done")

\* C26: a failure to obtain the current price of one symbol is recovered for
\* that symbol alone: every symbol whose own price history came back with a
\* close is recommended at that close, with the share count that close
\* gives, whatever happened to the other symbols of the request.
C26_PriceFailurePerAsset ==
    Called("allocations") =>
        \A i \in 1..Len(calc.symbols) :
            LET a == calc.result[i]
                own == calc.history[calc.symbols[i]]
            IN  own.kind = "close" =>
                    /\ a.current_price = own.close
                    /\ a.recommended_shares = Shares(a.recommended_amount, own.close)

\* C27: _fetch_portfolio_data completes without raising whenever the
\* download succeeds: a request whose download came back with a table is
\* not answered with a failure of the fetch, and the table returned has no
\* missing entry left in a column that has an observed price.
C27_FetchFillsMissing ==
    (pc = "done" /\ current_user # NoUser /\ ~downloaded.raised) =>
        LET data == FetchPortfolioData(request.symbols, downloaded)
        IN  /\ ~data.raised
            /\ << "error", "fetch_failed" >> \notin log
            /\ data.missing = {}

\* the cost of the recommended shares at the current prices, first k symbols
RECURSIVE CostTo(_, _)
CostTo(allocations, k) ==
    IF k = 0 THEN 0
    ELSE CostTo(allocations, k - 1)
             + allocations[k].recommended_shares * allocations[k].current_price

\* C28: the recommended amounts of a response sum to investment_amount *
\* sum(w), and the recommended shares cost, at the current prices, no more
\* than that sum; the weights of a response sum to 1, so the shares never
\* cost more than investment_amount.
C28_SpendsAtMostInvestment ==
    Called("allocations") =>
        LET a == calc.result
            n == Len(a)
            amounts == FloatSumTo([i \in 1..n |-> a[i].recommended_amount], n)
            weighted == calc.investment_amount * Sum(calc.optimal_weights)
        IN  /\ FloatEq(amounts, Divide(weighted, Scale))
            /\ CostTo(a, n) >= 0
            /\ CostTo(a, n) * Scale <= weighted
            /\ Sum(calc.optimal_weights) = Scale => CostTo(a, n) <= calc.investment_amount

\* two symbols, both bought, and part of the investment left over
C28_Witness ==
    /\ Called("allocations")
    /\ Len(calc.result) = 2
    /\ \A i \in 1..2 : calc.result[i].recommended_shares >= 1
    /\ Sum(calc.optimal_weights) = Scale
    /\ CostTo(calc.result, 2) < calc.investment_amount

\* C29: for every weight vector on the simplex with one asset or more the
\* diversification score is a defined number within [0, 1], and for the
\* single-asset vector [1.0] it is 0.0.
C29_SingleAssetScoreIsZero ==
    (Called("diversification_score") /\ ValidWeights(calc.weights)) =>
        /\ IsFinite(calc.result)
        /\ FloatLeq(Finite(0, 1), calc.result)
        /\ FloatLeq(calc.result, Finite(1, 1))
        /\ Len(calc.weights) = 1 => FloatEq(calc.result, Finite(0, 1))

\* C30: a token made by create_jwt_token is accepted by verify_jwt_token at
\* any time before its expiry one hour after it was made, and the payload
\* returned carries the user_id, the email and the roles it was made with;
\* after its expiry it is rejected.
C30_TokenRoundTrip ==
    Called("token_round_trip") =>
        /\ calc.now < calc.issued + TokenLifetime =>
               /\ ~calc.result.raised
               /\ calc.result.value.user_id = calc.user_id
               /\ calc.result.value.email = calc.email
               /\ calc.result.value.roles = calc.roles
        /\ calc.now > calc.issued + TokenLifetime => calc.result.raised

====
